---------------------------- MODULE Spec2Model ----------------------------
(***************************************************************************)
(* Kitchen (src/Kitchen.cpp, src/Kitchen.hpp): a subclass of ArrayBag<Dish> *)
(* that keeps two running aggregates, totalprep_time_ and countelaborate,  *)
(* next to the inherited array items_[0 .. item_count_-1].                 *)
(*                                                                         *)
(* The bag is modelled as a sequence: items_[i] of the model is items_[i-1]*)
(* of the code and Len(items_) is item_count_.  Every public method is one *)
(* action; its body is a pure operator over a kitchen record               *)
(*   [items_, totalprep_time_, countelaborate]                             *)
(* that returns the kitchen after the call and the value returned.         *)
(***************************************************************************)
EXTENDS Integers, Sequences, FiniteSets, TLC

VARIABLES
    items_,           \* ArrayBag<Dish>::items_[0 .. item_count_-1]
    totalprep_time_,  \* Kitchen::totalprep_time_
    countelaborate,   \* Kitchen::countelaborate
    op,               \* the last public call: its name, arguments and return value
    pre,              \* the kitchen as it was when that call began
    releases          \* number of bulk-release calls made so far

vars == <<items_, totalprep_time_, countelaborate, op, pre, releases>>

-----------------------------------------------------------------------------
(* Bounds of the model *)

\* slots of the bag (ArrayBag's fixed capacity)
Capacity == 4

\* bulk-release calls in one behaviour
MaxReleases == 1

-----------------------------------------------------------------------------
(* Dish: the value type.  price_ is in cents. *)

Spaghetti ==
    [name_ |-> "Spaghetti", ingredients_ |-> <<"Pasta", "Tomato Sauce", "Basil">>,
     prep_time_ |-> 20, price_ |-> 1250, cuisine_type_ |-> "CuisineType::ITALIAN"]

BeefStew ==
    [name_ |-> "Beef Stew",
     ingredients_ |-> <<"Beef", "Potatoes", "Carrots", "Onions", "Garlic">>,
     prep_time_ |-> 90, price_ |-> 2099, cuisine_type_ |-> "CuisineType::AMERICAN"]

Tacos ==
    [name_ |-> "Tacos", ingredients_ |-> <<"Tortilla", "Beef", "Lettuce">>,
     prep_time_ |-> 15, price_ |-> 999, cuisine_type_ |-> "CuisineType::MEXICAN"]

Pizza ==
    [name_ |-> "Pizza", ingredients_ |-> <<"Dough", "Tomato Sauce", "Cheese">>,
     prep_time_ |-> 30, price_ |-> 1499, cuisine_type_ |-> "CuisineType::ITALIAN"]

\* exactly 5 ingredients and exactly 60 minutes: elaborate, on both boundaries
Cassoulet ==
    [name_ |-> "Cassoulet",
     ingredients_ |-> <<"Beans", "Duck", "Sausage", "Pork", "Garlic">>,
     prep_time_ |-> 60, price_ |-> 2500, cuisine_type_ |-> "CuisineType::FRENCH"]

\* the four dishes of src/test.cpp and Cassoulet
Dishes == {Spaghetti, BeefStew, Tacos, Pizza, Cassoulet}

\* the value of op.dish for a call that takes no dish
NoDish ==
    [name_ |-> "", ingredients_ |-> <<>>, prep_time_ |-> 0, price_ |-> 0,
     cuisine_type_ |-> "CuisineType::OTHER"]

\* the default arguments of the two bulk releases: a call without an
\* argument is the call with the default
DefaultPrepTimeThreshold == 0

DefaultCuisineType == "ALL"

\* arguments of releaseDishesBelowPrepTime
Thresholds == {-1, DefaultPrepTimeThreshold, 30, 60}

RecognizedLabels ==
    {"ITALIAN", "MEXICAN", "CHINESE", "INDIAN", "AMERICAN", "FRENCH", "OTHER"}

\* arguments of releaseDishesOfCuisineType
Labels == RecognizedLabels \cup {DefaultCuisineType, "UNKNOWN", "italian"}

getPrepTime(d) == d.prep_time_

getIngredients(d) == d.ingredients_

\* Dish::getCuisineType(): the enumerator rendered as its label
getCuisineType(d) ==
    CASE d.cuisine_type_ = "CuisineType::ITALIAN"  -> "ITALIAN"
      [] d.cuisine_type_ = "CuisineType::MEXICAN"  -> "MEXICAN"
      [] d.cuisine_type_ = "CuisineType::CHINESE"  -> "CHINESE"
      [] d.cuisine_type_ = "CuisineType::INDIAN"   -> "INDIAN"
      [] d.cuisine_type_ = "CuisineType::AMERICAN" -> "AMERICAN"
      [] d.cuisine_type_ = "CuisineType::FRENCH"   -> "FRENCH"
      [] OTHER                                     -> "OTHER"

-----------------------------------------------------------------------------
(* ArrayBag<Dish>: the inherited container *)

getCurrentSize(items) == Len(items)

\* index of the first slot holding a dish equal to d, 0 when there is none
getIndexOf(items, d) ==
    IF \E i \in 1..Len(items) : items[i] = d
    THEN CHOOSE i \in 1..Len(items) :
            /\ items[i] = d
            /\ \A j \in 1..(i - 1) : items[j] # d
    ELSE 0

contains(items, d) == getIndexOf(items, d) > 0

\* add: fails only when the bag is full
add(items, d) ==
    IF Len(items) < Capacity
    THEN [items |-> Append(items, d), ok |-> TRUE]
    ELSE [items |-> items, ok |-> FALSE]

\* remove: the last item is moved into the slot of the first equal item
remove(items, d) ==
    LET found == getIndexOf(items, d)
    IN  IF found = 0
        THEN [items |-> items, ok |-> FALSE]
        ELSE [items |-> [j \in 1..(Len(items) - 1) |->
                            IF j = found THEN items[Len(items)] ELSE items[j]],
              ok |-> TRUE]

clear(items) == <<>>

-----------------------------------------------------------------------------
(* Kitchen *)

Kitchen(items, total, elaborate) ==
    [items_ |-> items, totalprep_time_ |-> total, countelaborate |-> elaborate]

\* the kitchen held by the variables
K == Kitchen(items_, totalprep_time_, countelaborate)

ElaborateMinIngredients == 5

ElaborateMinPrepTime == 60

\* the test both newOrder and serveDish apply to the dish
isElaborate(d) ==
    /\ Len(getIngredients(d)) >= ElaborateMinIngredients
    /\ getPrepTime(d) >= ElaborateMinPrepTime

\* newOrder with the aggregates updated before the duplicate check
newOrder_CountsBeforeCheck(k, new_dish) ==
    LET counted == Kitchen(k.items_,
                           k.totalprep_time_ + getPrepTime(new_dish),
                           IF isElaborate(new_dish) THEN k.countelaborate + 1
                           ELSE k.countelaborate)
    IN  IF contains(k.items_, new_dish)
        THEN [k |-> counted, ret |-> FALSE]
        ELSE LET added == add(k.items_, new_dish)
             IN  IF added.ok
                 THEN [k |-> Kitchen(added.items, counted.totalprep_time_,
                                     counted.countelaborate),
                       ret |-> TRUE]
                 ELSE [k |-> k, ret |-> FALSE]

\* newOrder with the elaborate test written prep time > 60
newOrder_StrictElaborate(k, new_dish) ==
    IF contains(k.items_, new_dish)
    THEN [k |-> k, ret |-> FALSE]
    ELSE LET added == add(k.items_, new_dish)
         IN  IF added.ok
             THEN [k |-> Kitchen(added.items,
                                 k.totalprep_time_ + getPrepTime(new_dish),
                                 IF /\ Len(getIngredients(new_dish)) >= ElaborateMinIngredients
                                    /\ getPrepTime(new_dish) > ElaborateMinPrepTime
                                 THEN k.countelaborate + 1
                                 ELSE k.countelaborate),
                   ret |-> TRUE]
             ELSE [k |-> k, ret |-> FALSE]

\* newOrder with the aggregates updated whether or not add succeeded
newOrder_IgnoresAddResult(k, new_dish) ==
    IF contains(k.items_, new_dish)
    THEN [k |-> k, ret |-> FALSE]
    ELSE LET added == add(k.items_, new_dish)
         IN  [k |-> Kitchen(added.items,
                            k.totalprep_time_ + getPrepTime(new_dish),
                            IF isElaborate(new_dish) THEN k.countelaborate + 1
                            ELSE k.countelaborate),
              ret |-> added.ok]

\* newOrder without the contains() check
newOrder_NoDuplicateCheck(k, new_dish) ==
    LET added == add(k.items_, new_dish)
    IN  IF added.ok
        THEN [k |-> Kitchen(added.items,
                            k.totalprep_time_ + getPrepTime(new_dish),
                            IF isElaborate(new_dish) THEN k.countelaborate + 1
                            ELSE k.countelaborate),
              ret |-> TRUE]
        ELSE [k |-> k, ret |-> FALSE]

newOrder(k, new_dish) ==
    IF contains(k.items_, new_dish)
    THEN [k |-> k, ret |-> FALSE]
    ELSE LET added == add(k.items_, new_dish)
         IN  IF added.ok
             THEN [k |-> Kitchen(added.items,
                                 k.totalprep_time_ + getPrepTime(new_dish),
                                 IF isElaborate(new_dish)
                                 THEN k.countelaborate + 1
                                 ELSE k.countelaborate),
                   ret |-> TRUE]
             ELSE [k |-> k, ret |-> FALSE]

\* serveDish that leaves countelaborate alone
serveDish_KeepsElaborateCount(k, dish) ==
    IF ~contains(k.items_, dish)
    THEN [k |-> k, ret |-> FALSE]
    ELSE LET removed == remove(k.items_, dish)
         IN  IF removed.ok
             THEN [k |-> Kitchen(removed.items,
                                 k.totalprep_time_ - getPrepTime(dish),
                                 k.countelaborate),
                   ret |-> TRUE]
             ELSE [k |-> k, ret |-> FALSE]

\* serveDish without the contains() check and with the aggregates updated
\* whether or not remove succeeded
serveDish_UpdatesUnconditionally(k, dish) ==
    LET removed == remove(k.items_, dish)
    IN  [k |-> Kitchen(removed.items,
                       k.totalprep_time_ - getPrepTime(dish),
                       IF isElaborate(dish) THEN k.countelaborate - 1
                       ELSE k.countelaborate),
         ret |-> removed.ok]

serveDish(k, dish) ==
    IF ~contains(k.items_, dish)
    THEN [k |-> k, ret |-> FALSE]
    ELSE LET removed == remove(k.items_, dish)
         IN  IF removed.ok
             THEN [k |-> Kitchen(removed.items,
                                 k.totalprep_time_ - getPrepTime(dish),
                                 IF isElaborate(dish)
                                 THEN k.countelaborate - 1
                                 ELSE k.countelaborate),
                   ret |-> TRUE]
             ELSE [k |-> k, ret |-> FALSE]

\* the scan of releaseDishesBelowPrepTime run forward, i++ after every slot
RECURSIVE BelowPrepTimeForward(_, _, _)
BelowPrepTimeForward(res, i, prep_time_threshold) ==
    IF i > Len(res.items)
    THEN res
    ELSE LET removed ==
                 IF getPrepTime(res.items[i]) < prep_time_threshold
                 THEN remove(res.items, res.items[i])
                 ELSE [items |-> res.items, ok |-> FALSE]
         IN  BelowPrepTimeForward(
                 [items |-> removed.items,
                  removed_count |-> IF removed.ok THEN res.removed_count + 1
                                    ELSE res.removed_count,
                  steps |-> res.steps + 1],
                 i + 1, prep_time_threshold)

BelowPrepTimeLoop_Forward(res, i, prep_time_threshold) ==
    BelowPrepTimeForward(res, 1, prep_time_threshold)

\* the scan of releaseDishesBelowPrepTime starting again from the last slot
\* after every removal
RECURSIVE BelowPrepTimeLoop_Restarts(_, _, _)
BelowPrepTimeLoop_Restarts(res, i, prep_time_threshold) ==
    IF i < 1
    THEN res
    ELSE LET removed ==
                 IF getPrepTime(res.items[i]) < prep_time_threshold
                 THEN remove(res.items, res.items[i])
                 ELSE [items |-> res.items, ok |-> FALSE]
         IN  BelowPrepTimeLoop_Restarts(
                 [items |-> removed.items,
                  removed_count |-> IF removed.ok THEN res.removed_count + 1
                                    ELSE res.removed_count,
                  steps |-> res.steps + 1],
                 IF removed.ok THEN Len(removed.items) ELSE i - 1,
                 prep_time_threshold)

\* the loop of releaseDishesBelowPrepTime: i runs from the last slot down to
\* the first; res is [items, removed_count, steps]
RECURSIVE BelowPrepTimeLoop(_, _, _)
BelowPrepTimeLoop(res, i, prep_time_threshold) ==
    IF i < 1
    THEN res
    ELSE LET removed ==
                 IF getPrepTime(res.items[i]) < prep_time_threshold
                 THEN remove(res.items, res.items[i])
                 ELSE [items |-> res.items, ok |-> FALSE]
         IN  BelowPrepTimeLoop(
                 [items |-> removed.items,
                  removed_count |-> IF removed.ok THEN res.removed_count + 1
                                    ELSE res.removed_count,
                  steps |-> res.steps + 1],
                 i - 1, prep_time_threshold)

\* releaseDishesBelowPrepTime with the first test left out and the second
\* written <= 0: a negative threshold removes everything
releaseDishesBelowPrepTime_NegativeClears(k, prep_time_threshold) ==
    IF prep_time_threshold <= 0
    THEN [k |-> Kitchen(clear(k.items_), k.totalprep_time_, k.countelaborate),
          ret |-> getCurrentSize(k.items_), steps |-> 0]
    ELSE LET res == BelowPrepTimeLoop(
                        [items |-> k.items_, removed_count |-> 0, steps |-> 0],
                        getCurrentSize(k.items_), prep_time_threshold)
         IN  [k |-> Kitchen(res.items, k.totalprep_time_, k.countelaborate),
              ret |-> res.removed_count, steps |-> res.steps]

\* releaseDishesBelowPrepTime with removed_count read after clear()
releaseDishesBelowPrepTime_SizeAfterClear(k, prep_time_threshold) ==
    IF prep_time_threshold < 0
    THEN [k |-> k, ret |-> 0, steps |-> 0]
    ELSE IF prep_time_threshold = 0
    THEN [k |-> Kitchen(clear(k.items_), k.totalprep_time_, k.countelaborate),
          ret |-> getCurrentSize(clear(k.items_)), steps |-> 0]
    ELSE LET res == BelowPrepTimeLoop(
                        [items |-> k.items_, removed_count |-> 0, steps |-> 0],
                        getCurrentSize(k.items_), prep_time_threshold)
         IN  [k |-> Kitchen(res.items, k.totalprep_time_, k.countelaborate),
              ret |-> res.removed_count, steps |-> res.steps]

releaseDishesBelowPrepTime(k, prep_time_threshold) ==
    IF prep_time_threshold < 0
    THEN [k |-> k, ret |-> 0, steps |-> 0]
    ELSE IF prep_time_threshold = 0
    THEN [k |-> Kitchen(clear(k.items_), k.totalprep_time_, k.countelaborate),
          ret |-> getCurrentSize(k.items_), steps |-> 0]
    ELSE LET res == BelowPrepTimeLoop(
                        [items |-> k.items_, removed_count |-> 0, steps |-> 0],
                        getCurrentSize(k.items_), prep_time_threshold)
         IN  [k |-> Kitchen(res.items, k.totalprep_time_, k.countelaborate),
              ret |-> res.removed_count, steps |-> res.steps]

\* the if/else chain matching the string to a Dish::CuisineType enumerator;
\* "none" stands for the final else, which returns 0
CuisineTypeOf(cuisine_type) ==
    CASE cuisine_type = "ITALIAN"  -> "CuisineType::ITALIAN"
      [] cuisine_type = "MEXICAN"  -> "CuisineType::MEXICAN"
      [] cuisine_type = "CHINESE"  -> "CuisineType::CHINESE"
      [] cuisine_type = "INDIAN"   -> "CuisineType::INDIAN"
      [] cuisine_type = "AMERICAN" -> "CuisineType::AMERICAN"
      [] cuisine_type = "FRENCH"   -> "CuisineType::FRENCH"
      [] cuisine_type = "OTHER"    -> "CuisineType::OTHER"
      [] OTHER                     -> "none"

\* the scan of releaseDishesOfCuisineType with the loop test written i > 0:
\* slot 0 is never looked at
RECURSIVE CuisineTypeLoop_SkipsFirstSlot(_, _, _)
CuisineTypeLoop_SkipsFirstSlot(res, i, cuisine_type) ==
    IF i < 2
    THEN res
    ELSE LET current_cuisine == getCuisineType(res.items[i])
             removed ==
                 IF current_cuisine = cuisine_type
                 THEN remove(res.items, res.items[i])
                 ELSE [items |-> res.items, ok |-> FALSE]
         IN  CuisineTypeLoop_SkipsFirstSlot(
                 [items |-> removed.items,
                  removed_count |-> IF removed.ok THEN res.removed_count + 1
                                    ELSE res.removed_count,
                  steps |-> res.steps + 1],
                 i - 1, cuisine_type)

\* the loop of releaseDishesOfCuisineType
RECURSIVE CuisineTypeLoop(_, _, _)
CuisineTypeLoop(res, i, cuisine_type) ==
    IF i < 1
    THEN res
    ELSE LET current_cuisine == getCuisineType(res.items[i])
             removed ==
                 IF current_cuisine = cuisine_type
                 THEN remove(res.items, res.items[i])
                 ELSE [items |-> res.items, ok |-> FALSE]
         IN  CuisineTypeLoop(
                 [items |-> removed.items,
                  removed_count |-> IF removed.ok THEN res.removed_count + 1
                                    ELSE res.removed_count,
                  steps |-> res.steps + 1],
                 i - 1, cuisine_type)

\* releaseDishesOfCuisineType with the final else left out: a label that
\* matches nothing is handled like "ALL"
releaseDishesOfCuisineType_UnknownClears(k, cuisine_type) ==
    IF cuisine_type = "ALL" \/ CuisineTypeOf(cuisine_type) = "none"
    THEN [k |-> Kitchen(clear(k.items_), k.totalprep_time_, k.countelaborate),
          ret |-> getCurrentSize(k.items_), steps |-> 0]
    ELSE LET res == CuisineTypeLoop(
                        [items |-> k.items_, removed_count |-> 0, steps |-> 0],
                        getCurrentSize(k.items_), cuisine_type)
         IN  [k |-> Kitchen(res.items, k.totalprep_time_, k.countelaborate),
              ret |-> res.removed_count, steps |-> res.steps]

releaseDishesOfCuisineType(k, cuisine_type) ==
    IF cuisine_type = "ALL"
    THEN [k |-> Kitchen(clear(k.items_), k.totalprep_time_, k.countelaborate),
          ret |-> getCurrentSize(k.items_), steps |-> 0]
    ELSE IF CuisineTypeOf(cuisine_type) = "none"
    THEN [k |-> k, ret |-> 0, steps |-> 0]
    ELSE LET res == CuisineTypeLoop(
                        [items |-> k.items_, removed_count |-> 0, steps |-> 0],
                        getCurrentSize(k.items_), cuisine_type)
         IN  [k |-> Kitchen(res.items, k.totalprep_time_, k.countelaborate),
              ret |-> res.removed_count, steps |-> res.steps]


-----------------------------------------------------------------------------
(* Kitchen: the const methods *)

getPrepTimeSum(k) == k.totalprep_time_

\* std::round(n / d) for an integer n and d > 0: to the nearest integer,
\* halves away from zero
Round(n, d) ==
    IF n >= 0
    THEN (2 * n + d) \div (2 * d)
    ELSE -((2 * (-n) + d) \div (2 * d))

calculateAvgPrepTime(k) ==
    LET dish_count == getCurrentSize(k.items_)
    IN  IF dish_count = 0
        THEN 0
        ELSE Round(k.totalprep_time_, dish_count)

elaborateDishCount(k) == k.countelaborate

\* the double returned has at most two decimals; the value here is that
\* double in hundredths of a percent (2500 is 25.00)
calculateElaboratePercentage(k) ==
    LET dish_count == getCurrentSize(k.items_)
    IN  IF dish_count = 0
        THEN 0
        ELSE Round(k.countelaborate * 100 * 100, dish_count)

\* the loop of tallyCuisineTypes: i runs from the first slot to the last
RECURSIVE TallyLoop(_, _, _, _)
TallyLoop(items, i, cuisine_type, count) ==
    IF i > getCurrentSize(items)
    THEN count
    ELSE TallyLoop(items, i + 1, cuisine_type,
                   IF getCuisineType(items[i]) = cuisine_type
                   THEN count + 1 ELSE count)

\* tallyCuisineTypes with the loop test written i < getCurrentSize() - 1
tallyCuisineTypes_SkipsLastSlot(k, cuisine_type) ==
    IF k.items_ = <<>>
    THEN 0
    ELSE TallyLoop(SubSeq(k.items_, 1, Len(k.items_) - 1), 1, cuisine_type, 0)

tallyCuisineTypes(k, cuisine_type) == TallyLoop(k.items_, 1, cuisine_type, 0)

\* operator<< of an int
PrintInt(n) == ToString(n)

\* operator<< of a double under std::fixed << std::setprecision(2); h is the
\* value in hundredths, h >= 0
PrintFixed2(h) ==
    ToString(h \div 100) \o "." \o ToString((h % 100) \div 10) \o ToString(h % 10)

\* kitchenReport with the first two count lines in the other order
kitchenReport_MexicanFirst(k) ==
    << "MEXICAN: "  \o PrintInt(tallyCuisineTypes(k, "MEXICAN")),
       "ITALIAN: "  \o PrintInt(tallyCuisineTypes(k, "ITALIAN")),
       "CHINESE: "  \o PrintInt(tallyCuisineTypes(k, "CHINESE")),
       "INDIAN: "   \o PrintInt(tallyCuisineTypes(k, "INDIAN")),
       "AMERICAN: " \o PrintInt(tallyCuisineTypes(k, "AMERICAN")),
       "FRENCH: "   \o PrintInt(tallyCuisineTypes(k, "FRENCH")),
       "OTHER: "    \o PrintInt(tallyCuisineTypes(k, "OTHER")),
       "",
       "AVERAGE PREP TIME: " \o PrintInt(calculateAvgPrepTime(k)),
       "ELABORATE: " \o PrintFixed2(calculateElaboratePercentage(k)) \o "%" >>

\* the lines kitchenReport writes to std::cout, each ended by std::endl
kitchenReport(k) ==
    << "ITALIAN: "  \o PrintInt(tallyCuisineTypes(k, "ITALIAN")),
       "MEXICAN: "  \o PrintInt(tallyCuisineTypes(k, "MEXICAN")),
       "CHINESE: "  \o PrintInt(tallyCuisineTypes(k, "CHINESE")),
       "INDIAN: "   \o PrintInt(tallyCuisineTypes(k, "INDIAN")),
       "AMERICAN: " \o PrintInt(tallyCuisineTypes(k, "AMERICAN")),
       "FRENCH: "   \o PrintInt(tallyCuisineTypes(k, "FRENCH")),
       "OTHER: "    \o PrintInt(tallyCuisineTypes(k, "OTHER")),
       "",
       "AVERAGE PREP TIME: " \o PrintInt(calculateAvgPrepTime(k)),
       "ELABORATE: " \o PrintFixed2(calculateElaboratePercentage(k)) \o "%" >>

-----------------------------------------------------------------------------
(* State machine *)

Call(name, dish, threshold, label, rb, ri) ==
    [name |-> name, dish |-> dish, prep_time_threshold |-> threshold,
     cuisine_type |-> label, returned_bool |-> rb, returned_int |-> ri,
     returned_double |-> 0, printed |-> <<>>]

Init ==
    /\ items_ = <<>>
    /\ totalprep_time_ = 0
    /\ countelaborate = 0
    /\ op = Call("Kitchen", NoDish, 0, "", FALSE, 0)
    /\ pre = Kitchen(<<>>, 0, 0)
    /\ releases = 0

Becomes(k) ==
    /\ items_' = k.items_
    /\ totalprep_time_' = k.totalprep_time_
    /\ countelaborate' = k.countelaborate
    /\ pre' = K

NewOrder ==
    \E d \in Dishes :
        LET r == newOrder(K, d)
        IN  /\ Becomes(r.k)
            /\ op' = Call("newOrder", d, 0, "", r.ret, 0)
            /\ UNCHANGED releases

ServeDish ==
    \E d \in Dishes :
        LET r == serveDish(K, d)
        IN  /\ Becomes(r.k)
            /\ op' = Call("serveDish", d, 0, "", r.ret, 0)
            /\ UNCHANGED releases

ReleaseDishesBelowPrepTime ==
    /\ releases < MaxReleases
    /\ \E t \in Thresholds :
        LET r == releaseDishesBelowPrepTime(K, t)
        IN  /\ Becomes(r.k)
            /\ op' = Call("releaseDishesBelowPrepTime", NoDish, t, "", FALSE, r.ret)
            /\ releases' = releases + 1

ReleaseDishesOfCuisineType ==
    /\ releases < MaxReleases
    /\ \E c \in Labels :
        LET r == releaseDishesOfCuisineType(K, c)
        IN  /\ Becomes(r.k)
            /\ op' = Call("releaseDishesOfCuisineType", NoDish, 0, c, FALSE, r.ret)
            /\ releases' = releases + 1

\* a const method: the kitchen is left as it is
Observes ==
    /\ UNCHANGED <<items_, totalprep_time_, countelaborate, releases>>
    /\ pre' = K

GetPrepTimeSum ==
    /\ Observes
    /\ op' = Call("getPrepTimeSum", NoDish, 0, "", FALSE, getPrepTimeSum(K))

CalculateAvgPrepTime ==
    /\ Observes
    /\ op' = Call("calculateAvgPrepTime", NoDish, 0, "", FALSE,
                  calculateAvgPrepTime(K))

ElaborateDishCount ==
    /\ Observes
    /\ op' = Call("elaborateDishCount", NoDish, 0, "", FALSE, elaborateDishCount(K))

CalculateElaboratePercentage ==
    /\ Observes
    /\ op' = [Call("calculateElaboratePercentage", NoDish, 0, "", FALSE, 0)
                 EXCEPT !.returned_double = calculateElaboratePercentage(K)]

\* tallyCuisineTypes that serves what it counts
TallyCuisineTypes_Consumes ==
    \E c \in Labels :
        /\ Becomes(releaseDishesOfCuisineType(K, c).k)
        /\ op' = Call("tallyCuisineTypes", NoDish, 0, c, FALSE,
                      tallyCuisineTypes(K, c))
        /\ UNCHANGED releases

TallyCuisineTypes ==
    \E c \in Labels :
        /\ Observes
        /\ op' = Call("tallyCuisineTypes", NoDish, 0, c, FALSE,
                      tallyCuisineTypes(K, c))

KitchenReport ==
    /\ Observes
    /\ op' = [Call("kitchenReport", NoDish, 0, "", FALSE, 0)
                 EXCEPT !.printed = kitchenReport(K)]

OrdersNext == NewOrder \/ ServeDish

SpecOrders == Init /\ [][OrdersNext]_vars

Next ==
    \/ NewOrder
    \/ ServeDish
    \/ ReleaseDishesBelowPrepTime
    \/ ReleaseDishesOfCuisineType

\* the methods that change the kitchen
Spec == Init /\ [][Next]_vars

QueryNext ==
    \/ GetPrepTimeSum
    \/ CalculateAvgPrepTime
    \/ ElaborateDishCount
    \/ CalculateElaboratePercentage
    \/ TallyCuisineTypes
    \/ KitchenReport

\* every method of Kitchen
SpecQueries == Init /\ [][Next \/ QueryNext]_vars

(* Kitchen derives publicly from ArrayBag<Dish>: the bag's own add, remove  *)
(* and clear can be called on a Kitchen.  They bypass the aggregates just  *)
(* as a bulk release does and count against the same bound.                *)

ArrayBagAdd ==
    /\ releases < MaxReleases
    /\ \E d \in Dishes :
        LET r == add(items_, d)
        IN  /\ Becomes(Kitchen(r.items, totalprep_time_, countelaborate))
            /\ op' = Call("ArrayBag::add", d, 0, "", r.ok, 0)
            /\ releases' = releases + 1

ArrayBagRemove ==
    /\ releases < MaxReleases
    /\ \E d \in Dishes :
        LET r == remove(items_, d)
        IN  /\ Becomes(Kitchen(r.items, totalprep_time_, countelaborate))
            /\ op' = Call("ArrayBag::remove", d, 0, "", r.ok, 0)
            /\ releases' = releases + 1

ArrayBagClear ==
    /\ releases < MaxReleases
    /\ Becomes(Kitchen(clear(items_), totalprep_time_, countelaborate))
    /\ op' = Call("ArrayBag::clear", NoDish, 0, "", FALSE, 0)
    /\ releases' = releases + 1

InheritedNext == ArrayBagAdd \/ ArrayBagRemove \/ ArrayBagClear

\* every mutating method a caller of Kitchen can reach
SpecPublic == Init /\ [][Next \/ InheritedNext]_vars

-----------------------------------------------------------------------------
(* A full re-scan of a container, written independently of the methods *)

ItemSet(items) == {items[i] : i \in 1..Len(items)}

RECURSIVE SumPrepTime(_)
SumPrepTime(items) ==
    IF items = <<>> THEN 0
    ELSE items[1].prep_time_ + SumPrepTime(Tail(items))

CountElaborate(items) ==
    Cardinality({i \in 1..Len(items) :
                    Len(items[i].ingredients_) >= 5 /\ items[i].prep_time_ >= 60})

NoDuplicates(items) ==
    \A i, j \in 1..Len(items) : items[i] = items[j] => i = j

IsSelectiveRelease ==
    \/ op.name = "releaseDishesBelowPrepTime" /\ op.prep_time_threshold > 0
    \/ op.name = "releaseDishesOfCuisineType" /\ op.cuisine_type \in RecognizedLabels

IsRemoveAll ==
    \/ op.name = "releaseDishesBelowPrepTime" /\ op.prep_time_threshold = 0
    \/ op.name = "releaseDishesOfCuisineType" /\ op.cuisine_type = "ALL"

-----------------------------------------------------------------------------
(* Claims *)

\* C1: after every newOrder / serveDish call of a behaviour made of such calls
\* only, totalprep_time_ is the sum of the prep times of the dishes in the bag
\* and countelaborate is the number of dishes in the bag with at least 5
\* ingredients and a prep time of at least 60.
C1_AggregatesMatchContents ==
    /\ totalprep_time_ = SumPrepTime(items_)
    /\ countelaborate = CountElaborate(items_)

\* an elaborate dish was served out of a bag that still holds an elaborate dish
C1_Witness ==
    /\ op.name = "serveDish"
    /\ op.returned_bool
    /\ CountElaborate(<<op.dish>>) = 1
    /\ Len(items_) >= 2
    /\ countelaborate = 1

\* C2: a selective bulk release (threshold > 0, or a recognized cuisine label)
\* lowers totalprep_time_ by the prep time of every dish it removed and
\* countelaborate by the number of elaborate dishes it removed, so that both
\* aggregates equal a re-scan of what is left.
C2_SelectiveReleaseUpdatesAggregates ==
    IsSelectiveRelease =>
        /\ totalprep_time_ =
               pre.totalprep_time_ - (SumPrepTime(pre.items_) - SumPrepTime(items_))
        /\ countelaborate =
               pre.countelaborate - (CountElaborate(pre.items_) - CountElaborate(items_))
        /\ totalprep_time_ = SumPrepTime(items_)
        /\ countelaborate = CountElaborate(items_)

\* C3: after a remove-all call (threshold 0, or label "ALL") both aggregates
\* are zero.
C3_RemoveAllResetsAggregates ==
    IsRemoveAll => totalprep_time_ = 0 /\ countelaborate = 0

\* C4: releaseDishesBelowPrepTime(t) with t > 0 removes exactly the dishes
\* whose prep time is strictly below t, keeps every other dish, and returns
\* the number of dishes it removed.
C4_ReleaseBelowRemovesExactlyTheShortOnes ==
    (op.name = "releaseDishesBelowPrepTime" /\ op.prep_time_threshold > 0) =>
        LET short == {d \in ItemSet(pre.items_) :
                         d.prep_time_ < op.prep_time_threshold}
        IN  /\ ItemSet(items_) = ItemSet(pre.items_) \ short
            /\ Len(items_) = Len(pre.items_) - Cardinality(short)
            /\ op.returned_int = Cardinality(short)

\* two short dishes, one of them in the last slot, were removed from between
\* dishes that stay
C4_Witness ==
    /\ op.name = "releaseDishesBelowPrepTime"
    /\ op.prep_time_threshold = 30
    /\ op.returned_int = 2
    /\ Len(pre.items_) = 4
    /\ pre.items_[4].prep_time_ < 30
    /\ pre.items_[1].prep_time_ < 30
    /\ \E i \in 1..Len(items_) : items_[i].prep_time_ = 30

\* C5: releaseDishesOfCuisineType(label), label one of the seven recognized
\* labels, removes exactly the dishes whose cuisine renders to label, keeps
\* every other dish, and returns the number of dishes it removed.
C5_ReleaseCuisineRemovesExactlyThatCuisine ==
    (op.name = "releaseDishesOfCuisineType" /\ op.cuisine_type \in RecognizedLabels) =>
        LET matching == {d \in ItemSet(pre.items_) :
                            getCuisineType(d) = op.cuisine_type}
        IN  /\ ItemSet(items_) = ItemSet(pre.items_) \ matching
            /\ Len(items_) = Len(pre.items_) - Cardinality(matching)
            /\ op.returned_int = Cardinality(matching)

\* both Italian dishes, one in the first slot, were removed and two dishes stay
C5_Witness ==
    /\ op.name = "releaseDishesOfCuisineType"
    /\ op.cuisine_type = "ITALIAN"
    /\ op.returned_int = 2
    /\ getCuisineType(pre.items_[1]) = "ITALIAN"
    /\ Len(items_) = 2

\* C6: newOrder of a dish equal to one in the bag returns false and changes
\* neither the bag nor the aggregates.
C6_DuplicateOrderRejected ==
    (op.name = "newOrder" /\ op.dish \in ItemSet(pre.items_)) =>
        /\ ~op.returned_bool
        /\ items_ = pre.items_
        /\ totalprep_time_ = pre.totalprep_time_
        /\ countelaborate = pre.countelaborate

\* a duplicate was turned down while the bag still had room
C6_Witness ==
    /\ op.name = "newOrder"
    /\ op.dish \in ItemSet(pre.items_)
    /\ Len(pre.items_) < Capacity
    /\ ~op.returned_bool

\* C7: newOrder of a dish that is not in the bag, with room left, returns true,
\* and a serveDish of the same dish right after returns true and gives back
\* the aggregates and the set of dishes that newOrder started from.
C7_OrderThenServeRoundTrip ==
    (/\ op.name = "newOrder"
     /\ op.dish \notin ItemSet(pre.items_)
     /\ Len(pre.items_) < Capacity) =>
        /\ op.returned_bool
        /\ LET served == serveDish(K, op.dish)
           IN  /\ served.ret
               /\ served.k.totalprep_time_ = pre.totalprep_time_
               /\ served.k.countelaborate = pre.countelaborate
               /\ ItemSet(served.k.items_) = ItemSet(pre.items_)
               /\ Len(served.k.items_) = Len(pre.items_)

\* an elaborate dish on the boundary was ordered into a non-empty kitchen whose
\* aggregates a bulk release had already left behind
C7_Witness ==
    /\ op.name = "newOrder"
    /\ op.returned_bool
    /\ op.dish = Cassoulet
    /\ Len(pre.items_) >= 1
    /\ pre.totalprep_time_ # SumPrepTime(pre.items_)

\* C8: newOrder of a dish that is not in the bag when the bag is full returns
\* false and changes neither the bag nor the aggregates, as for a duplicate.
C8_FullKitchenRejectsOrder ==
    (/\ op.name = "newOrder"
     /\ op.dish \notin ItemSet(pre.items_)
     /\ Len(pre.items_) = Capacity) =>
        /\ ~op.returned_bool
        /\ items_ = pre.items_
        /\ totalprep_time_ = pre.totalprep_time_
        /\ countelaborate = pre.countelaborate

\* a new elaborate dish was turned down by a full bag
C8_Witness ==
    /\ op.name = "newOrder"
    /\ op.dish \notin ItemSet(pre.items_)
    /\ Len(pre.items_) = Capacity
    /\ CountElaborate(<<op.dish>>) = 1
    /\ ~op.returned_bool

\* C9: serveDish returns true exactly when an equal dish is in the bag; then
\* that one dish is gone and the size is one less; when it returns false the
\* bag and both aggregates are as before.
C9_ServeReturnsTrueIffPresent ==
    op.name = "serveDish" =>
        /\ op.returned_bool <=> op.dish \in ItemSet(pre.items_)
        /\ op.returned_bool =>
               /\ Len(items_) = Len(pre.items_) - 1
               /\ ItemSet(items_) = ItemSet(pre.items_) \ {op.dish}
        /\ ~op.returned_bool =>
               /\ items_ = pre.items_
               /\ totalprep_time_ = pre.totalprep_time_
               /\ countelaborate = pre.countelaborate

\* the dish in the first slot of a bag of three or more was served
C9_Witness ==
    /\ op.name = "serveDish"
    /\ op.returned_bool
    /\ Len(pre.items_) >= 3
    /\ pre.items_[1] = op.dish

\* C10: after any sequence of newOrder, serveDish and bulk releases the bag
\* holds no two equal dishes and no more dishes than its capacity; a newOrder
\* that returns true has added one dish, the one ordered.
C10_UniqueAndBounded ==
    /\ NoDuplicates(items_)
    /\ Len(items_) <= Capacity
    /\ (op.name = "newOrder" /\ op.returned_bool) =>
           /\ Len(items_) = Len(pre.items_) + 1
           /\ op.dish \in ItemSet(items_)

\* an order filled the last slot after a bulk release had been made
C10_Witness ==
    /\ op.name = "newOrder"
    /\ op.returned_bool
    /\ Len(items_) = Capacity
    /\ releases > 0

\* the number of slots of items holding a dish of the cuisine labelled label
CountCuisine(items, label) ==
    Cardinality({i \in 1..Len(items) : getCuisineType(items[i]) = label})

\* r is n / d rounded to the nearest integer, halves away from zero
\* (n >= 0, d > 0)
IsNearest(r, n, d) ==
    /\ 2 * r * d <= 2 * n + d
    /\ 2 * n + d < 2 * (r + 1) * d

KitchenMutators ==
    {"newOrder", "serveDish", "releaseDishesBelowPrepTime",
     "releaseDishesOfCuisineType"}

KitchenQueries ==
    {"getPrepTimeSum", "calculateAvgPrepTime", "elaborateDishCount",
     "calculateElaboratePercentage", "tallyCuisineTypes", "kitchenReport"}

\* C11: calculateAvgPrepTime() returns 0 for an empty bag and otherwise the
\* mean prep time of the dishes in the bag, rounded to the nearest integer
\* with halves away from zero, in every reachable state.
C11_AverageIsMeanOfContents ==
    op.name = "calculateAvgPrepTime" =>
        IF items_ = <<>>
        THEN op.returned_int = 0
        ELSE IsNearest(op.returned_int, SumPrepTime(items_), Len(items_))

\* C12: tallyCuisineTypes(label) returns the number of dishes in the bag
\* whose cuisine renders to label, 0 for a label that is none of the seven,
\* and the seven tallies add up to the size of the bag.
C12_TallyCountsCuisine ==
    /\ op.name = "tallyCuisineTypes" =>
           /\ op.returned_int = CountCuisine(items_, op.cuisine_type)
           /\ op.cuisine_type \notin RecognizedLabels => op.returned_int = 0
    /\ tallyCuisineTypes(K, "ITALIAN") + tallyCuisineTypes(K, "MEXICAN")
         + tallyCuisineTypes(K, "CHINESE") + tallyCuisineTypes(K, "INDIAN")
         + tallyCuisineTypes(K, "AMERICAN") + tallyCuisineTypes(K, "FRENCH")
         + tallyCuisineTypes(K, "OTHER") = Len(items_)

\* both Italian dishes of a full bag were counted, one of them in the last slot
C12_Witness ==
    /\ op.name = "tallyCuisineTypes"
    /\ op.cuisine_type = "ITALIAN"
    /\ op.returned_int = 2
    /\ Len(items_) = 4
    /\ getCuisineType(items_[4]) = "ITALIAN"

\* C13: releaseDishesOfCuisineType with a label that is neither "ALL" nor one
\* of the seven returns 0 and changes neither the bag nor the aggregates.
C13_UnknownLabelReleasesNothing ==
    (/\ op.name = "releaseDishesOfCuisineType"
     /\ op.cuisine_type \notin RecognizedLabels \cup {"ALL"}) =>
        /\ op.returned_int = 0
        /\ items_ = pre.items_
        /\ totalprep_time_ = pre.totalprep_time_
        /\ countelaborate = pre.countelaborate

\* "italian" was given while an Italian dish was in the bag
C13_Witness ==
    /\ op.name = "releaseDishesOfCuisineType"
    /\ op.cuisine_type = "italian"
    /\ CountCuisine(pre.items_, "ITALIAN") >= 1
    /\ Len(items_) >= 2

\* C14: releaseDishesBelowPrepTime with a negative threshold returns 0 and
\* changes neither the bag nor the aggregates.
C14_NegativeThresholdReleasesNothing ==
    (op.name = "releaseDishesBelowPrepTime" /\ op.prep_time_threshold < 0) =>
        /\ op.returned_int = 0
        /\ items_ = pre.items_
        /\ totalprep_time_ = pre.totalprep_time_
        /\ countelaborate = pre.countelaborate

\* a negative threshold was given to a kitchen holding dishes
C14_Witness ==
    /\ op.name = "releaseDishesBelowPrepTime"
    /\ op.prep_time_threshold < 0
    /\ Len(pre.items_) >= 2

\* C15: a remove-all call (threshold 0, label "ALL", or no argument, which is
\* one of these two) leaves the bag empty and returns the size it had.
C15_RemoveAllEmptiesAndReturnsSize ==
    /\ DefaultPrepTimeThreshold = 0
    /\ DefaultCuisineType = "ALL"
    /\ IsRemoveAll =>
           /\ items_ = <<>>
           /\ op.returned_int = Len(pre.items_)

\* releaseDishesBelowPrepTime() emptied a bag of three or more
C15_Witness ==
    /\ op.name = "releaseDishesBelowPrepTime"
    /\ op.prep_time_threshold = DefaultPrepTimeThreshold
    /\ Len(pre.items_) >= 3
    /\ op.returned_int = Len(pre.items_)
    /\ items_ = <<>>

C17_QueriesChangeNothing ==
    op.name \in KitchenQueries =>
        /\ items_ = pre.items_
        /\ totalprep_time_ = pre.totalprep_time_
        /\ countelaborate = pre.countelaborate

\* a tally that found dishes, in a kitchen holding other dishes too
C17_Witness ==
    /\ op.name = "tallyCuisineTypes"
    /\ op.returned_int >= 1
    /\ Len(items_) > op.returned_int

\* C18: only newOrder, serveDish and the two bulk releases change which
\* dishes the bag holds; nothing else a caller can reach on a Kitchen does.
C18_MembershipOnlyThroughKitchen ==
    op.name \notin KitchenMutators => items_ = pre.items_

\* C19: countelaborate never exceeds the size of the bag, so the elaborate
\* percentage lies between 0 and 100 and is 0 for an empty bag.
C19_ElaborateCountWithinSize ==
    /\ countelaborate <= Len(items_)
    /\ calculateElaboratePercentage(K) >= 0
    /\ calculateElaboratePercentage(K) <= 100 * 100
    /\ items_ = <<>> => calculateElaboratePercentage(K) = 0

\* C20: the scan of a selective bulk release ends after at most one step per
\* slot that was occupied when the call began.
C20_ScanBoundedBySize ==
    /\ (op.name = "releaseDishesBelowPrepTime" /\ op.prep_time_threshold > 0) =>
           LET r == releaseDishesBelowPrepTime(pre, op.prep_time_threshold)
           IN  /\ r.k = K
               /\ r.ret = op.returned_int
               /\ r.steps <= Len(pre.items_)
    /\ (op.name = "releaseDishesOfCuisineType"
           /\ op.cuisine_type \in RecognizedLabels) =>
           LET r == releaseDishesOfCuisineType(pre, op.cuisine_type)
           IN  /\ r.k = K
               /\ r.ret = op.returned_int
               /\ r.steps <= Len(pre.items_)

\* a scan over a full bag removed the dish of the first slot and one more
C20_Witness ==
    /\ op.name = "releaseDishesBelowPrepTime"
    /\ op.prep_time_threshold = 60
    /\ Len(pre.items_) = Capacity
    /\ pre.items_[1].prep_time_ < 60
    /\ op.returned_int >= 2
    /\ Len(items_) >= 1

=============================================================================
